---- MODULE Spec2Model ----
(***************************************************************************)
(* Model of chatbot_sentiment_kb.py: the normalizer, the tokenizer, the    *)
(* lexicon scorer, the knowledge-base matcher, the intent classifier and   *)
(* the chat loop.  Text is a sequence of character code points, so that    *)
(* lower(), the regular expressions and the string ordering used by the    *)
(* matcher are computed as Python computes them.                           *)
(***************************************************************************)
EXTENDS Integers, Sequences, FiniteSets

VARIABLES
    user,       \* the raw input text of the operation under way
    kb_data,    \* the loaded knowledge base: a sequence of [question, answer]
    pc,         \* position: which operation has been applied to the input
    norm,       \* normalize(user)
    renorm,     \* normalize(norm)
    sentiment,  \* result of detect_sentiment(user)
    emotions,   \* result of detect_emotions(user)
    kb,         \* trace and result of find_in_kb(user, kb_data)
    intent,     \* result of match_intent(user)
    reply,      \* outcome of intent_response
    turn        \* chat loop: what the last iteration of main did

vars == <<user, kb_data, pc, norm, renorm, sentiment, emotions, kb, intent, reply, turn>>

(***************************************************************************)
(* Bounds of the checked input sets.                                       *)
(***************************************************************************)
MaxLen == 4        \* longest raw text given to normalize, in characters
MaxWords == 3      \* most words of a text given to the lexicon scorer
MaxRecords == 2    \* most records of a knowledge base
MaxIntentWords == 2     \* most words of a text given to the intent classifier
MaxLineWords == 2  \* most words of a line read by the chat loop

None == "None"     \* Python's None

(***************************************************************************)
(* Characters: Python's str.lower(), and the classes \w and \s of re, on   *)
(* the ASCII range.                                                        *)
(***************************************************************************)
SPACE == 32

IsUpper(c) == c \in 65..90

IsWordChar(c) == c \in 48..57 \/ c \in 65..90 \/ c \in 97..122 \/ c = 95

IsSpace(c) == c \in 9..13 \/ c \in 28..32

lower(s) == [i \in 1..Len(s) |-> IF IsUpper(s[i]) THEN s[i] + 32 ELSE s[i]]

\* re.sub(r"[^\w\s]", " ", text)
sub_punct(s) ==
    [i \in 1..Len(s) |-> IF IsWordChar(s[i]) \/ IsSpace(s[i]) THEN s[i] ELSE SPACE]

\* re.sub(r"\s+", " ", text): each maximal run of whitespace becomes one space
RECURSIVE sub_spaces(_)
sub_spaces(s) ==
    IF s = <<>> THEN <<>>
    ELSE IF IsSpace(Head(s))
         THEN IF Len(s) > 1 /\ IsSpace(s[2])
              THEN sub_spaces(Tail(s))
              ELSE <<SPACE>> \o sub_spaces(Tail(s))
         ELSE <<Head(s)>> \o sub_spaces(Tail(s))

RECURSIVE lstrip(_)
lstrip(s) == IF s # <<>> /\ IsSpace(Head(s)) THEN lstrip(Tail(s)) ELSE s

RECURSIVE rstrip(_)
rstrip(s) ==
    IF s # <<>> /\ IsSpace(s[Len(s)]) THEN rstrip(SubSeq(s, 1, Len(s) - 1)) ELSE s

strip(s) == rstrip(lstrip(s))

normalize_nostrip(text) == sub_spaces(sub_punct(lower(text)))

normalize(text) == strip(sub_spaces(sub_punct(lower(text))))

\* str.split() without arguments: the maximal runs of non-whitespace
RECURSIVE split_from(_, _, _)
split_from(s, i, cur) ==
    IF i > Len(s)
    THEN IF cur = <<>> THEN <<>> ELSE <<cur>>
    ELSE IF IsSpace(s[i])
         THEN (IF cur = <<>> THEN <<>> ELSE <<cur>>) \o split_from(s, i + 1, <<>>)
         ELSE split_from(s, i + 1, Append(cur, s[i]))

split(s) == split_from(s, 1, <<>>)

tokenize(text) == split(normalize(text))

SeqToSet(q) == {q[i] : i \in 1..Len(q)}

\* " ".join(words)
RECURSIVE join(_)
join(words) ==
    IF words = <<>> THEN <<>>
    ELSE IF Len(words) = 1 THEN words[1]
    ELSE words[1] \o <<SPACE>> \o join(Tail(words))

SeqsUpTo(S, n) == UNION {[1..k -> S] : k \in 0..n}

(***************************************************************************)
(* Lexicons (module constants of the program).                             *)
(***************************************************************************)
POS_WORDS ==
    { <<103,111,111,100>> (* "good" *), <<103,114,101,97,116>> (* "great" *), <<97,119,101,115,111,109,101>> (* "awesome" *), <<102,97,110,116,97,115,116,105,99>> (* "fantastic" *), <<108,111,118,101>> (* "love" *), <<108,105,107,101,100>> (* "liked" *),
      <<104,97,112,112,121>> (* "happy" *), <<110,105,99,101>> (* "nice" *), <<101,120,99,101,108,108,101,110,116>> (* "excellent" *), <<97,109,97,122,105,110,103>> (* "amazing" *), <<119,111,110,100,101,114,102,117,108>> (* "wonderful" *), <<98,101,115,116>> (* "best" *),
      <<112,111,115,105,116,105,118,101>> (* "positive" *), <<112,108,101,97,115,101,100>> (* "pleased" *), <<101,110,106,111,121>> (* "enjoy" *), <<101,110,106,111,121,101,100>> (* "enjoyed" *), <<121,97,121>> (* "yay" *), <<121,97,121,33>> (* "yay!" *) }

NEG_WORDS ==
    { <<98,97,100>> (* "bad" *), <<116,101,114,114,105,98,108,101>> (* "terrible" *), <<97,119,102,117,108>> (* "awful" *), <<104,97,116,101>> (* "hate" *), <<104,97,116,101,100>> (* "hated" *), <<115,97,100>> (* "sad" *), <<97,110,103,114,121>> (* "angry" *),
      <<117,112,115,101,116>> (* "upset" *), <<119,111,114,115,116>> (* "worst" *), <<112,111,111,114>> (* "poor" *), <<110,101,103,97,116,105,118,101>> (* "negative" *), <<100,105,115,97,112,112,111,105,110,116,101,100>> (* "disappointed" *),
      <<100,105,115,97,112,112,111,105,110,116,105,110,103>> (* "disappointing" *), <<97,110,103,114,121>> (* "angry" *), <<117,103,104>> (* "ugh" *), <<115,117,99,107,115>> (* "sucks" *) }

EMOTION_LABELS == <<"joy", "sadness", "anger", "fear", "surprise", "love">>

EMOTION_KEYWORDS ==
    [e \in SeqToSet(EMOTION_LABELS) |->
        CASE e = "joy" -> { <<104,97,112,112,121>> (* "happy" *), <<106,111,121>> (* "joy" *), <<100,101,108,105,103,104,116,101,100>> (* "delighted" *), <<101,120,99,105,116,101,100>> (* "excited" *), <<103,108,97,100>> (* "glad" *),
                            <<112,108,101,97,115,101,100>> (* "pleased" *), <<121,97,121>> (* "yay" *), <<97,119,101,115,111,109,101>> (* "awesome" *) }
          [] e = "sadness" -> { <<115,97,100>> (* "sad" *), <<117,110,104,97,112,112,121>> (* "unhappy" *), <<100,111,119,110>> (* "down" *), <<100,101,112,114,101,115,115,101,100>> (* "depressed" *), <<98,108,117,101>> (* "blue" *),
                                <<115,111,114,114,111,119>> (* "sorrow" *), <<109,111,117,114,110>> (* "mourn" *) }
          [] e = "anger" -> { <<97,110,103,114,121>> (* "angry" *), <<109,97,100>> (* "mad" *), <<102,117,114,105,111,117,115>> (* "furious" *), <<105,114,97,116,101>> (* "irate" *), <<97,110,110,111,121,101,100>> (* "annoyed" *),
                              <<104,97,116,101>> (* "hate" *), <<104,97,116,101,100>> (* "hated" *) }
          [] e = "fear" -> { <<115,99,97,114,101,100>> (* "scared" *), <<97,102,114,97,105,100>> (* "afraid" *), <<102,101,97,114>> (* "fear" *), <<116,101,114,114,105,102,105,101,100>> (* "terrified" *), <<112,97,110,105,99>> (* "panic" *),
                             <<97,110,120,105,111,117,115>> (* "anxious" *) }
          [] e = "surprise" -> { <<115,117,114,112,114,105,115,101,100>> (* "surprised" *), <<119,111,119>> (* "wow" *), <<115,104,111,99,107,101,100>> (* "shocked" *), <<97,109,97,122,101,100>> (* "amazed" *) }
          [] e = "love" -> { <<108,111,118,101>> (* "love" *), <<108,111,118,105,110,103>> (* "loving" *), <<97,100,111,114,101>> (* "adore" *), <<99,104,101,114,105,115,104>> (* "cherish" *) }]

(***************************************************************************)
(* Sentiment and emotion.                                                  *)
(***************************************************************************)
\* sum(1 for t in tokens if t in words)
RECURSIVE count_in(_, _)
count_in(tokens, words) ==
    IF tokens = <<>> THEN 0
    ELSE (IF Head(tokens) \in words THEN 1 ELSE 0) + count_in(Tail(tokens), words)

polarity_of(score) ==
    IF score > 0 THEN "positive" ELSE IF score < 0 THEN "negative" ELSE "neutral"

detect_sentiment_distinct(text) ==
    LET tokens == SeqToSet(tokenize(text))
        pos_count == Cardinality(tokens \cap POS_WORDS)
        neg_count == Cardinality(tokens \cap NEG_WORDS)
        score == pos_count - neg_count
    IN  [polarity |-> polarity_of(score), score |-> score,
         pos |-> pos_count, neg |-> neg_count]

detect_sentiment(text) ==
    LET tokens == tokenize(text)
        pos_count == count_in(tokens, POS_WORDS)
        neg_count == count_in(tokens, NEG_WORDS)
        score == pos_count - neg_count
    IN  [polarity |-> polarity_of(score), score |-> score,
         pos |-> pos_count, neg |-> neg_count]

\* the loop over EMOTION_KEYWORDS.items(), from label i on, adding to found
RECURSIVE emotions_from(_, _, _)
emotions_from(tokens, i, found) ==
    IF i > Len(EMOTION_LABELS) THEN found
    ELSE LET emo == EMOTION_LABELS[i]
             matches == tokens \cap EMOTION_KEYWORDS[emo]
         IN  IF matches # {}
             THEN emotions_from(tokens, i + 1,
                      [e \in DOMAIN found \cup {emo} |->
                          IF e = emo THEN Cardinality(matches) ELSE found[e]])
             ELSE emotions_from(tokens, i + 1, found)

EmptyDict == [e \in {} |-> 0]

detect_emotions_occurrences(text) ==
    LET toks == tokenize(text)
        hit == {e \in SeqToSet(EMOTION_LABELS) : count_in(toks, EMOTION_KEYWORDS[e]) > 0}
    IN  [e \in hit |-> count_in(toks, EMOTION_KEYWORDS[e])]

detect_emotions(text) == emotions_from(SeqToSet(tokenize(text)), 1, EmptyDict)

(***************************************************************************)
(* difflib, as find_in_kb uses it: SequenceMatcher(None, a, b).ratio()     *)
(* with a the candidate question and b the query (get_close_matches sets   *)
(* seq2 to the word and seq1 to each possibility), no junk, and texts      *)
(* shorter than the 200 characters at which autojunk starts.  Indices are  *)
(* Python's: 0-based, [lo, hi).                                            *)
(***************************************************************************)
\* length of the common block of a from i and b from j, inside [., ahi) and [., bhi)
RECURSIVE block_len(_, _, _, _, _, _)
block_len(a, b, i, j, ahi, bhi) ==
    IF i < ahi /\ j < bhi /\ a[i + 1] = b[j + 1]
    THEN 1 + block_len(a, b, i + 1, j + 1, ahi, bhi)
    ELSE 0

Max(S) == CHOOSE x \in S : \A y \in S : y <= x

Min(S) == CHOOSE x \in S : \A y \in S : x <= y

\* SequenceMatcher.find_longest_match: the longest block, of those the one that
\* starts earliest in a, of those the one that starts earliest in b
find_longest_match(a, b, alo, ahi, blo, bhi) ==
    LET starts == (alo..(ahi - 1)) \X (blo..(bhi - 1))
        sizes == {block_len(a, b, p[1], p[2], ahi, bhi) : p \in starts}
        bestsize == IF starts = {} THEN 0 ELSE Max(sizes)
    IN  IF bestsize = 0 THEN <<alo, blo, 0>>
        ELSE LET besti == Min({p[1] : p \in {q \in starts :
                                 block_len(a, b, q[1], q[2], ahi, bhi) = bestsize}})
                 bestj == Min({j \in blo..(bhi - 1) :
                                 block_len(a, b, besti, j, ahi, bhi) = bestsize})
             IN  <<besti, bestj, bestsize>>

\* sum of the sizes of SequenceMatcher.get_matching_blocks()
RECURSIVE matching_size(_, _, _, _, _, _)
matching_size(a, b, alo, ahi, blo, bhi) ==
    LET m == find_longest_match(a, b, alo, ahi, blo, bhi)
        i == m[1]
        j == m[2]
        k == m[3]
    IN  IF k = 0 THEN 0
        ELSE k + (IF alo < i /\ blo < j
                  THEN matching_size(a, b, alo, i, blo, j) ELSE 0)
               + (IF i + k < ahi /\ j + k < bhi
                  THEN matching_size(a, b, i + k, ahi, j + k, bhi) ELSE 0)

\* SequenceMatcher.ratio() as the fraction <<numerator, denominator>>:
\* 2.0 * matches / length, and 1.0 when both texts are empty
ratio(a, b) ==
    LET length == Len(a) + Len(b)
    IN  IF length = 0 THEN <<1, 1>>
        ELSE <<2 * matching_size(a, b, 0, Len(a), 0, Len(b)), length>>

\* comparison of two fractions with positive denominators
frac_geq(x, y) == x[1] * y[2] >= y[1] * x[2]

frac_eq(x, y) == x[1] * y[2] = y[1] * x[2]

\* Python's str ordering: by code point, a proper prefix is smaller
RECURSIVE str_less(_, _)
str_less(x, y) ==
    IF y = <<>> THEN FALSE
    ELSE IF x = <<>> THEN TRUE
    ELSE IF Head(x) # Head(y) THEN Head(x) < Head(y)
    ELSE str_less(Tail(x), Tail(y))

SIM_CUTOFF == <<7, 10>>          \* cutoff=0.7 of the get_close_matches call

LOOSE_SIM_CUTOFF == <<6, 10>>

\* the (score, x) tuple order heapq.nlargest uses
scored_greater(s1, x1, s2, x2) ==
    IF frac_eq(s1, s2) THEN str_less(x2, x1) ELSE frac_geq(s1, s2)

\* get_close_matches(word, possibilities, n=1, cutoff): the scan of the
\* possibilities from position i on; best is <<>> or <<score, x>>, the greatest
\* (score, x) tuple so far, and max() keeps the first of equal tuples
RECURSIVE close_scan(_, _, _, _, _)
close_scan(word, possibilities, cutoff, i, best) ==
    IF i > Len(possibilities) THEN best
    ELSE LET x == possibilities[i]
             score == ratio(x, word)
         IN  IF frac_geq(score, cutoff)
                /\ (best = <<>> \/ scored_greater(score, x, best[1], best[2]))
             THEN close_scan(word, possibilities, cutoff, i + 1, <<score, x>>)
             ELSE close_scan(word, possibilities, cutoff, i + 1, best)

\* the list get_close_matches returns with n=1: empty, or the one best match
get_close_matches_loose(word, possibilities) ==
    LET best == close_scan(word, possibilities, LOOSE_SIM_CUTOFF, 1, <<>>)
    IN  IF best = <<>> THEN <<>> ELSE <<best[2]>>

get_close_matches(word, possibilities) ==
    LET best == close_scan(word, possibilities, SIM_CUTOFF, 1, <<>>)
    IN  IF best = <<>> THEN <<>> ELSE <<best[2]>>

\* list.index(x): the first position holding x (1-based here)
index(list, x) == Min({i \in 1..Len(list) : list[i] = x})

(***************************************************************************)
(* Knowledge-base search.                                                  *)
(***************************************************************************)
DEFAULT_CUTOFF == <<6, 10>>      \* cutoff=0.6, the default main relies on

\* the (overlap, idx) tuple order of list.sort
tuple_less(s, t) == s[1] < t[1] \/ (s[1] = t[1] /\ s[2] < t[2])

\* list.sort(reverse=True) on a list of (overlap, idx) tuples
RECURSIVE sort_reverse(_)
sort_reverse(list) ==
    IF list = <<>> THEN <<>>
    ELSE LET top == CHOOSE i \in 1..Len(list) :
                        \A j \in 1..Len(list) : j = i \/ tuple_less(list[j], list[i])
             rest == [k \in 1..(Len(list) - 1) |-> IF k < top THEN list[k] ELSE list[k + 1]]
         IN  <<list[top]>> \o sort_reverse(rest)

\* the overlap_scores list; idx is the record's position, 1-based here
overlap_scores(user_tokens, questions) ==
    [idx \in 1..Len(questions) |->
        <<Cardinality(user_tokens \cap SeqToSet(split(questions[idx]))), idx>>]

\* ratio = best_overlap / max(1, len(q_tokens)); ratio >= cutoff
strong_match_never(best_overlap, q_tokens, cutoff) == FALSE

strong_match(best_overlap, q_tokens, cutoff) ==
    LET n == Cardinality(q_tokens)
    IN  frac_geq(<<best_overlap, IF n > 1 THEN n ELSE 1>>, cutoff)

\* find_in_kb: the answer (or None) with the trace of how it was found:
\* stage names the return statement taken, best_idx and best_overlap the head
\* of the sorted overlap list (0 when the list was not built)
find_in_kb(user_input, kb_records, cutoff) ==
    IF kb_records = <<>>
    THEN [answer |-> None, stage |-> "empty", best_idx |-> 0, best_overlap |-> 0]
    ELSE
    LET user_norm == normalize(user_input)
        questions == [i \in 1..Len(kb_records) |-> normalize(kb_records[i].question)]
        user_tokens == SeqToSet(split(user_norm))
        sorted == sort_reverse(overlap_scores(user_tokens, questions))
        best_overlap == sorted[1][1]
        best_idx == sorted[1][2]
    IN  IF best_overlap > 0
           /\ strong_match(best_overlap, SeqToSet(split(questions[best_idx])), cutoff)
        THEN [answer |-> kb_records[best_idx].answer, stage |-> "overlap",
              best_idx |-> best_idx, best_overlap |-> best_overlap]
        ELSE LET matches == get_close_matches(user_norm, questions)
             IN  IF matches # <<>>
                 THEN [answer |-> kb_records[index(questions, matches[1])].answer,
                       stage |-> "fuzzy",
                       best_idx |-> best_idx, best_overlap |-> best_overlap]
                 ELSE [answer |-> None, stage |-> "nomatch",
                       best_idx |-> best_idx, best_overlap |-> best_overlap]

(***************************************************************************)
(* Intents.  A pattern is a literal text, with wb TRUE when the source     *)
(* writes it between two \b.  The dash of the response templates is        *)
(* written as a hyphen.                                                    *)
(***************************************************************************)
Lit(text) == [lit |-> text, wb |-> FALSE]

Word(text) == [lit |-> text, wb |-> TRUE]

INTENTS ==
    << [name |-> "greeting",
        patterns |-> << Word(<<104,101,108,108,111>> (* "hello" *)), Word(<<104,105>> (* "hi" *)), Word(<<104,101,121>> (* "hey" *)),
                        Word(<<103,111,111,100,32,109,111,114,110,105,110,103>> (* "good morning" *)), Word(<<103,111,111,100,32,101,118,101,110,105,110,103>> (* "good evening" *)) >>,
        responses |-> << "Hello! How can I help you today?",
                         "Hi there - what can I do for you?",
                         "Hey! Ask me anything." >>],
       [name |-> "goodbye",
        patterns |-> << Word(<<98,121,101>> (* "bye" *)), Word(<<103,111,111,100,98,121,101>> (* "goodbye" *)), Word(<<115,101,101,32,121,111,117>> (* "see you" *)),
                        Word(<<101,120,105,116>> (* "exit" *)), Word(<<113,117,105,116>> (* "quit" *)) >>,
        responses |-> << "Goodbye! Take care.", "See you later!",
                         "It was nice talking to you." >>],
       [name |-> "thanks",
        patterns |-> << Word(<<116,104,97,110,107,115>> (* "thanks" *)), Word(<<116,104,97,110,107,32,121,111,117>> (* "thank you" *)), Word(<<116,104,120>> (* "thx" *)) >>,
        responses |-> << "You're welcome!", "No problem - happy to help.", "Anytime!" >>],
       [name |-> "how_are_you",
        patterns |-> << Lit(<<104,111,119,32,97,114,101,32,121,111,117>> (* "how are you" *)), Lit(<<104,111,119,39,115,32,105,116,32,103,111,105,110,103>> (* "how's it going" *)),
                        Lit(<<104,111,119,32,97,114,101,32,116,104,105,110,103,115>> (* "how are things" *)) >>,
        responses |-> << "I'm a bot, but I'm running smoothly!",
                         "All good here - ready to help you." >>],
       [name |-> "help",
        patterns |-> << Word(<<104,101,108,112>> (* "help" *)), Word(<<97,115,115,105,115,116>> (* "assist" *)), Word(<<115,117,112,112,111,114,116>> (* "support" *)),
                        Lit(<<119,104,97,116,32,99,97,110,32,121,111,117,32,100,111>> (* "what can you do" *)) >>,
        responses |-> << "I can answer common questions, detect basic sentiment in your text, and fetch answers from a small knowledge base.",
                         "Try asking me about the project tasks (image resizer, Flask app, data analysis), or say how you're feeling." >>] >>

INTENT_KEYS == {INTENTS[i].name : i \in 1..Len(INTENTS)}

\* \b at offset p of text (between text[p] and text[p + 1])
word_boundary(text, p) ==
    LET before == p >= 1 /\ IsWordChar(text[p])
        after == p < Len(text) /\ IsWordChar(text[p + 1])
    IN  before # after

\* the literal lit occurs in text at offset p
occurs_at(text, lit, p) ==
    /\ p + Len(lit) <= Len(text)
    /\ \A k \in 1..Len(lit) : text[p + k] = lit[k]

\* re.search(patt, text)
re_search(patt, text) ==
    \E p \in 0..Len(text) :
        /\ occurs_at(text, patt.lit, p)
        /\ patt.wb => (word_boundary(text, p) /\ word_boundary(text, p + Len(patt.lit)))

\* the inner loop of match_intent: some pattern of the list, from position j on, matches
RECURSIVE any_pattern(_, _, _)
any_pattern(patterns, text, j) ==
    IF j > Len(patterns) THEN FALSE
    ELSE IF re_search(patterns[j], text) THEN TRUE
    ELSE any_pattern(patterns, text, j + 1)

\* the outer loop of match_intent over INTENTS.items(), from intent i on
RECURSIVE match_from(_, _)
match_from(text, i) ==
    IF i > Len(INTENTS) THEN None
    ELSE IF any_pattern(INTENTS[i].patterns, text, 1) THEN INTENTS[i].name
    ELSE match_from(text, i + 1)

\* the outer loop run from the last intent to the first
RECURSIVE match_down(_, _)
match_down(text, i) ==
    IF i < 1 THEN None
    ELSE IF any_pattern(INTENTS[i].patterns, text, 1) THEN INTENTS[i].name
    ELSE match_down(text, i - 1)

match_intent_reversed(user_input) == match_down(lower(user_input), Len(INTENTS))

match_intent(user_input) == match_from(lower(user_input), 1)

\* INTENTS[intent_key]["responses"]
responses_of(intent_key) ==
    LET i == CHOOSE i \in 1..Len(INTENTS) : INTENTS[i].name = intent_key
    IN  SeqToSet(INTENTS[i].responses)

\* intent_response: the outcomes random.choice may produce, or the KeyError
\* of the dictionary lookup
intent_response_any(intent_key) ==
    IF intent_key \in INTENT_KEYS
    THEN {[kind |-> "reply", text |-> r] :
            r \in UNION {responses_of(k) : k \in INTENT_KEYS}}
    ELSE {[kind |-> "KeyError", text |-> ""]}

intent_response(intent_key) ==
    IF intent_key \in INTENT_KEYS
    THEN {[kind |-> "reply", text |-> r] : r \in responses_of(intent_key)}
    ELSE {[kind |-> "KeyError", text |-> ""]}

(***************************************************************************)
(* Chat loop: one iteration of the while loop of main.                     *)
(***************************************************************************)
EXIT_WORDS == { <<98,121,101>> (* "bye" *), <<103,111,111,100,98,121,101>> (* "goodbye" *), <<101,120,105,116>> (* "exit" *), <<113,117,105,116>> (* "quit" *) }

\* re.search(r"\b(bye|goodbye|exit|quit)\b", user, re.IGNORECASE)
quick_exit_as_goodbye(text) == any_pattern(INTENTS[2].patterns, lower(text), 1)

quick_exit(text) == \E w \in EXIT_WORDS : re_search(Word(w), lower(text))

\* re.search(r"\b(resize|image|pillow|pil)\b", user, re.IGNORECASE)
about_images(text) ==
    \E w \in { <<114,101,115,105,122,101>> (* "resize" *), <<105,109,97,103,101>> (* "image" *), <<112,105,108,108,111,119>> (* "pillow" *), <<112,105,108>> (* "pil" *) } :
        re_search(Word(w), lower(text))

\* re.search(r"\b(flask|api|endpoint)\b", user, re.IGNORECASE)
about_flask(text) ==
    \E w \in { <<102,108,97,115,107>> (* "flask" *), <<97,112,105>> (* "api" *), <<101,110,100,112,111,105,110,116>> (* "endpoint" *) } : re_search(Word(w), lower(text))

FALLBACK_PHRASES ==
    { "I'm not sure yet - can you rephrase?",
      "I don't have an exact answer for that, but I can try to help.",
      "Interesting - tell me more or ask a different way." }

\* Python truth value of a find_in_kb result
truthy(answer) == answer # None /\ answer # ""

\* emotions.get(label)
has_emotion(found, label) == label \in DOMAIN found

Turn(branch, said, calls, running) ==
    [branch |-> branch, said |-> said, calls |-> calls, running |-> running]

\* the outcomes of one iteration on the line read: the branch taken, what was
\* said, the functions called in order, and whether the loop goes on
main_iteration(line, kb_records) ==
    LET text == strip(line)
    IN
    IF text = <<>> THEN {Turn("empty", "Say something", <<>>, TRUE)}
    ELSE IF quick_exit(text) THEN {Turn("exit", "Goodbye", <<>>, FALSE)}
    ELSE
    LET kb_answer == find_in_kb(text, kb_records, DEFAULT_CUTOFF).answer
    IN
    IF truthy(kb_answer)
    THEN {Turn("kb", kb_answer,
               <<"find_in_kb", "detect_sentiment", "detect_emotions">>, TRUE)}
    ELSE
    LET matched == match_intent(text)
    IN
    IF matched # None
    THEN {Turn("intent", r.text, <<"find_in_kb", "match_intent", "intent_response">>, TRUE) :
            r \in intent_response(matched)}
    ELSE
    LET result == detect_sentiment(text)
        found == detect_emotions(text)
        calls == <<"find_in_kb", "match_intent", "detect_sentiment", "detect_emotions">>
    IN
    IF result.polarity = "negative"
    THEN IF has_emotion(found, "sadness") THEN {Turn("negative", "sorry", calls, TRUE)}
         ELSE IF has_emotion(found, "anger") THEN {Turn("negative", "upset", calls, TRUE)}
         ELSE {Turn("negative", "rough", calls, TRUE)}
    ELSE IF result.polarity = "positive"
    THEN IF has_emotion(found, "joy") \/ has_emotion(found, "love")
         THEN {Turn("positive", "wonderful", calls, TRUE)}
         ELSE {Turn("positive", "nice", calls, TRUE)}
    ELSE IF about_images(text) THEN {Turn("keyword", "pillow", calls, TRUE)}
    ELSE IF about_flask(text) THEN {Turn("keyword", "flask", calls, TRUE)}
    ELSE {Turn("fallback", r, calls, TRUE) : r \in FALLBACK_PHRASES}

(***************************************************************************)
(* Input sets of the checked specifications.                               *)
(***************************************************************************)
\* tab, space, '!', '1', 'A', '_', 'a'
NormAlphabet == {9, 32, 33, 49, 65, 95, 97}

LexWords ==
    { <<103,111,111,100>> (* "good" *), <<98,97,100>> (* "bad" *), <<104,97,112,112,121>> (* "happy" *), <<72,97,112,112,121,33>> (* "Happy!" *), <<104,97,116,101>> (* "hate" *), <<73>> (* "I" *), <<97,109>> (* "am" *), <<102,105,110,101>> (* "fine" *) }

KBTexts ==
    { <<97>> (* "a" *), <<97,32,98>> (* "a b" *), <<98,32,97>> (* "b a" *), <<97,32,98,98>> (* "a bb" *), <<97,98>> (* "ab" *), <<97,97,98>> (* "aab" *), <<97,98,98>> (* "abb" *), <<97,32,99,32,100>> (* "a c d" *),
      <<65,44,32,98,33>> (* "A, b!" *), <<63>> (* "?" *) }

IntentWords ==
    { <<72,101,108,108,111>> (* "Hello" *), <<116,104,101,114,101>> (* "there" *), <<120,121,122>> (* "xyz" *), <<104,105>> (* "hi" *), <<116,104,105,115>> (* "this" *), <<98,121,101,33>> (* "bye!" *), <<116,104,97,110,107,115>> (* "thanks" *),
      <<104,101,108,112>> (* "help" *), <<104,111,119,32,97,114,101,32,121,111,117>> (* "how are you" *), <<115,101,101>> (* "see" *), <<121,111,117>> (* "you" *) }

ChatWords ==
    { <<66,121,101>> (* "Bye" *), <<115,101,101>> (* "see" *), <<121,111,117>> (* "you" *), <<104,101,108,108,111>> (* "hello" *), <<115,97,100>> (* "sad" *), <<103,111,111,100>> (* "good" *), <<114,101,115,105,122,101>> (* "resize" *),
      <<102,108,97,115,107>> (* "flask" *), <<119,104,97,116>> (* "what" *), <<120,121,122>> (* "xyz" *), <<32>> (* " " *) }

UNREGISTERED_KEYS == {"smalltalk", None}

Texts(words, n) == {join(ws) : ws \in SeqsUpTo(words, n)}

\* a knowledge base with the given questions; the answer names the record
MkKb(qs) ==
    [i \in 1..Len(qs) |->
        [question |-> qs[i],
         answer |-> CASE i = 1 -> "A1" [] i = 2 -> "A2" [] i = 3 -> "A3" [] OTHER -> "A4"]]

\* load_kb keeps every entry that has both keys, whatever their values: an
\* answer may be the empty string
ChatKBs ==
    { <<>>,
      << [question |-> <<104,111,119,32,116,111,32,114,101,115,105,122,101,32,105,109,97,103,101,115>> (* "how to resize images" *), answer |-> "A1"],
         [question |-> <<119,104,97,116,32,105,115,32,102,108,97,115,107>> (* "what is flask" *), answer |-> "A2"] >>,
      << [question |-> <<72,101,108,108,111,32,102,108,97,115,107,63>> (* "Hello flask?" *), answer |-> "A1"],
         [question |-> <<120,121,122>> (* "xyz" *), answer |-> ""] >> }

(***************************************************************************)
(* State machines.                                                         *)
(***************************************************************************)
NoSentiment == [polarity |-> "neutral", score |-> 0, pos |-> 0, neg |-> 0]

NoKb == [answer |-> None, stage |-> "idle", best_idx |-> 0, best_overlap |-> 0]

NoReply == [kind |-> "idle", text |-> ""]

NoTurn == Turn("start", "", <<>>, TRUE)

Idle ==
    /\ norm = <<>>
    /\ renorm = <<>>
    /\ sentiment = NoSentiment
    /\ emotions = EmptyDict
    /\ kb = NoKb
    /\ intent = None
    /\ reply = NoReply
    /\ turn = NoTurn

\* ---- normalize ----
InitNormalize ==
    /\ user \in SeqsUpTo(NormAlphabet, MaxLen)
    /\ kb_data = <<>>
    /\ pc = "input"
    /\ Idle

Normalize ==
    /\ pc = "input"
    /\ norm' = normalize(user)
    /\ pc' = "normalized"
    /\ UNCHANGED <<user, kb_data, renorm, sentiment, emotions, kb, intent, reply, turn>>

Renormalize ==
    /\ pc = "normalized"
    /\ renorm' = normalize(norm)
    /\ pc' = "renormalized"
    /\ UNCHANGED <<user, kb_data, norm, sentiment, emotions, kb, intent, reply, turn>>

NextNormalize == Normalize \/ Renormalize

SpecNormalize == InitNormalize /\ [][NextNormalize]_vars

\* ---- detect_sentiment, detect_emotions ----
InitLexicon ==
    /\ user \in Texts(LexWords, MaxWords)
    /\ kb_data = <<>>
    /\ pc = "input"
    /\ Idle

DetectSentiment ==
    /\ pc = "input"
    /\ sentiment' = detect_sentiment(user)
    /\ pc' = "sentiment"
    /\ UNCHANGED <<user, kb_data, norm, renorm, emotions, kb, intent, reply, turn>>

DetectEmotions ==
    /\ pc = "input"
    /\ emotions' = detect_emotions(user)
    /\ pc' = "emotions"
    /\ UNCHANGED <<user, kb_data, norm, renorm, sentiment, kb, intent, reply, turn>>

NextLexicon == DetectSentiment \/ DetectEmotions

SpecLexicon == InitLexicon /\ [][NextLexicon]_vars

\* ---- find_in_kb ----
InitKB ==
    /\ user \in KBTexts
    /\ kb_data \in {MkKb(qs) : qs \in SeqsUpTo(KBTexts, MaxRecords)}
    /\ pc = "input"
    /\ Idle

FindInKb ==
    /\ pc = "input"
    /\ kb' = find_in_kb(user, kb_data, DEFAULT_CUTOFF)
    /\ pc' = "searched"
    /\ UNCHANGED <<user, kb_data, norm, renorm, sentiment, emotions, intent, reply, turn>>

NextKB == FindInKb

SpecKB == InitKB /\ [][NextKB]_vars

\* ---- match_intent, intent_response ----
InitIntent ==
    /\ user \in Texts(IntentWords, MaxIntentWords)
    /\ kb_data = <<>>
    /\ pc = "input"
    /\ Idle

MatchIntent ==
    /\ pc = "input"
    /\ intent' = match_intent(user)
    /\ pc' = "matched"
    /\ UNCHANGED <<user, kb_data, norm, renorm, sentiment, emotions, kb, reply, turn>>

\* intent_response on the intent just matched, as main calls it
IntentResponse ==
    /\ pc = "matched"
    /\ intent # None
    /\ reply' \in intent_response(intent)
    /\ pc' = "replied"
    /\ UNCHANGED <<user, kb_data, norm, renorm, sentiment, emotions, kb, intent, turn>>

\* intent_response on any identifier, registered or not
IntentResponseOf(key) ==
    /\ pc = "input"
    /\ intent' = key
    /\ reply' \in intent_response(key)
    /\ pc' = "looked_up"
    /\ UNCHANGED <<user, kb_data, norm, renorm, sentiment, emotions, kb, turn>>

NextIntent ==
    \/ MatchIntent
    \/ IntentResponse
    \/ \E key \in INTENT_KEYS \cup UNREGISTERED_KEYS : IntentResponseOf(key)

SpecIntent == InitIntent /\ [][NextIntent]_vars

\* ---- main ----
InitChat ==
    /\ user = <<>>
    /\ kb_data \in ChatKBs
    /\ pc = "loop"
    /\ Idle

\* input() returns a line and the body of the loop runs on it, to its continue,
\* its break or the end of the body
ReadLine(line) ==
    /\ pc = "loop"
    /\ user' = line
    /\ turn' \in main_iteration(line, kb_data)
    /\ pc' = IF turn'.running THEN "replied" ELSE "ended"
    /\ UNCHANGED <<kb_data, norm, renorm, sentiment, emotions, kb, intent, reply>>

\* input() raises EOFError or KeyboardInterrupt: Bye! and break
ReadEof ==
    /\ pc = "loop"
    /\ user' = <<>>
    /\ turn' = Turn("eof", "Bye!", <<>>, FALSE)
    /\ pc' = "ended"
    /\ UNCHANGED <<kb_data, norm, renorm, sentiment, emotions, kb, intent, reply>>

\* back at the top of the while loop: the locals of the finished iteration are
\* dead (input() overwrites user before anything reads it)
Continue ==
    /\ pc = "replied"
    /\ pc' = "loop"
    /\ user' = <<>>
    /\ turn' = NoTurn
    /\ UNCHANGED <<kb_data, norm, renorm, sentiment, emotions, kb, intent, reply>>

NextChat ==
    \/ \E line \in Texts(ChatWords, MaxLineWords) : ReadLine(line)
    \/ ReadEof
    \/ Continue

SpecChat == InitChat /\ [][NextChat]_vars

(***************************************************************************)
(* Properties.                                                             *)
(***************************************************************************)
\* ---- normalize ----
\* s holds only spaces and word characters that are not upper case, no two
\* spaces in a row, and no space at either end
Clean(s) ==
    /\ \A i \in 1..Len(s) : s[i] = SPACE \/ (IsWordChar(s[i]) /\ ~IsUpper(s[i]))
    /\ \A i \in 1..(Len(s) - 1) : ~(s[i] = SPACE /\ s[i + 1] = SPACE)
    /\ s # <<>> => (s[1] # SPACE /\ s[Len(s)] # SPACE)

\* C5: normalize(text) holds only lower-case word characters and single spaces,
\* with no space at either end, and normalize(normalize(x)) = normalize(x)
C5_NormalizeCleanAndIdempotent ==
    /\ pc \in {"normalized", "renormalized"} => Clean(norm)
    /\ pc = "renormalized" => renorm = norm

\* C5 witness: a text with upper case, punctuation and a run of whitespace at
\* its end has been normalized twice
C5_Witness ==
    /\ pc = "renormalized"
    /\ user = <<65, 33, 9, 32>>
    /\ norm = <<97>>
    /\ renorm = <<97>>

\* ---- detect_sentiment ----
\* the positions of tokens (a sequence) that hold a member of words
Hits(tokens, words) == {i \in 1..Len(tokens) : tokens[i] \in words}

\* C6: pos and neg count the token occurrences in the positive and in the
\* negative set, score is their difference, polarity is the sign of score;
\* "good good bad" gives pos 2, neg 1, score 1, positive, and "I am fine" gives
\* score 0, neutral
C6_SentimentCountsOccurrences ==
    pc = "sentiment" =>
        LET tokens == tokenize(user)
        IN  /\ sentiment.pos = Cardinality(Hits(tokens, POS_WORDS))
            /\ sentiment.neg = Cardinality(Hits(tokens, NEG_WORDS))
            /\ sentiment.score = sentiment.pos - sentiment.neg
            /\ sentiment.polarity = "positive" <=> sentiment.score > 0
            /\ sentiment.polarity = "negative" <=> sentiment.score < 0
            /\ sentiment.polarity = "neutral" <=> sentiment.score = 0
            /\ user = <<103,111,111,100,32,103,111,111,100,32,98,97,100>> (* "good good bad" *) =>
                 sentiment = [polarity |-> "positive", score |-> 1, pos |-> 2, neg |-> 1]
            /\ user = <<73,32,97,109,32,102,105,110,101>> (* "I am fine" *) =>
                 (sentiment.score = 0 /\ sentiment.polarity = "neutral")

\* C6 witness: detect_sentiment has scored "good good bad"
C6_Witness ==
    /\ pc = "sentiment"
    /\ user = <<103,111,111,100,32,103,111,111,100,32,98,97,100>> (* "good good bad" *)
    /\ sentiment.pos = 2
    /\ sentiment.neg = 1
    /\ sentiment.polarity = "positive"

\* ---- detect_emotions ----
\* C7: the result holds a label iff some trigger word of that emotion is a
\* token, and its value is the number of distinct trigger words present, at
\* least 1; "happy happy" gives {joy: 1}
C7_EmotionsCountDistinctTriggers ==
    pc = "emotions" =>
        LET tokens == tokenize(user)
            present(e) == {w \in EMOTION_KEYWORDS[e] : \E i \in 1..Len(tokens) : tokens[i] = w}
        IN  /\ DOMAIN emotions = {e \in DOMAIN EMOTION_KEYWORDS : present(e) # {}}
            /\ \A e \in DOMAIN emotions :
                 emotions[e] = Cardinality(present(e)) /\ emotions[e] >= 1
            /\ user = <<104,97,112,112,121,32,104,97,112,112,121>> (* "happy happy" *) =>
                 (DOMAIN emotions = {"joy"} /\ emotions["joy"] = 1)

\* C7 witness: a text that repeats one trigger word of joy and holds one of
\* anger yields both labels, each with count 1
C7_Witness ==
    /\ pc = "emotions"
    /\ user = <<104,97,112,112,121,32,104,97,112,112,121,32,104,97,116,101>> (* "happy happy hate" *)
    /\ DOMAIN emotions = {"joy", "anger"}
    /\ emotions["joy"] = 1
    /\ emotions["anger"] = 1

\* ---- find_in_kb ----
\* number of distinct tokens the query shares with the question of record i
Overlap(i) ==
    Cardinality(SeqToSet(tokenize(user)) \cap SeqToSet(tokenize(kb_data[i].question)))

QTokenCount(i) == Cardinality(SeqToSet(tokenize(kb_data[i].question)))

\* record c has positive overlap and overlap / max(1, question tokens) >= 0.6
Stage1Succeeds(c) ==
    /\ Overlap(c) > 0
    /\ 10 * Overlap(c) >= 6 * (IF QTokenCount(c) > 1 THEN QTokenCount(c) ELSE 1)

\* similarity of the normalized question of record i to the normalized query
Score(i) == ratio(normalize(kb_data[i].question), normalize(user))

Similar(i) == 10 * Score(i)[1] >= 7 * Score(i)[2]

Records == 1..Len(kb_data)

MaxOverlapRecords == {i \in Records : \A j \in Records : Overlap(j) <= Overlap(i)}

\* C1: the stage-1 candidate has the maximum overlap, and of the records with
\* that overlap it is the one with the smallest index; when stage 1 returns, it
\* returns the answer of that earliest record
C1_EarliestMaxOverlapSelected ==
    (pc = "searched" /\ kb_data # <<>>) =>
        /\ kb.best_idx = Min(MaxOverlapRecords)
        /\ kb.stage = "overlap" => kb.answer = kb_data[Min(MaxOverlapRecords)].answer

\* C2: when the stage-1 candidate (a record of maximum overlap) has overlap > 0
\* and ratio >= cutoff, find_in_kb returns its answer from the overlap stage,
\* without reaching the similarity stage
C2_Stage1SuccessSkipsSimilarity ==
    (pc = "searched" /\ kb_data # <<>>) =>
        /\ kb.best_idx \in MaxOverlapRecords
        /\ kb.best_overlap = Overlap(kb.best_idx)
        /\ Stage1Succeeds(kb.best_idx) =>
             (kb.stage = "overlap" /\ kb.answer = kb_data[kb.best_idx].answer)

\* C2 witness: stage 1 returned the answer of its candidate although another
\* record passes the similarity threshold with a higher score than the candidate
C2_Witness ==
    /\ pc = "searched"
    /\ kb.stage = "overlap"
    /\ kb.answer = kb_data[kb.best_idx].answer
    /\ \E j \in Records :
         /\ j # kb.best_idx
         /\ Similar(j)
         /\ ~frac_geq(Score(kb.best_idx), Score(j))

\* the records whose similarity passes the threshold and is the highest
BestSimilar ==
    {i \in Records : Similar(i) /\ \A j \in Records : frac_geq(Score(i), Score(j))}

\* C3: when stage 1 does not succeed, the answer is that of the record with the
\* highest similarity among those with similarity >= 0.7, the first in record
\* order when several share the highest score (None when there is none)
C3_FallbackFirstMostSimilar ==
    (pc = "searched" /\ kb.stage \in {"fuzzy", "nomatch"}) =>
        IF BestSimilar = {} THEN kb.answer = None
        ELSE kb.answer = kb_data[Min(BestSimilar)].answer

\* C4: the result is None or the answer of a record of the collection, and it
\* is None exactly when the collection is empty or both stages fail
C4_NoneExactlyWhenBothStagesFail ==
    pc = "searched" =>
        /\ kb.answer = None \/ \E i \in Records : kb.answer = kb_data[i].answer
        /\ kb.answer = None <=>
             \/ kb_data = <<>>
             \/ /\ ~Stage1Succeeds(kb.best_idx)
                /\ \A i \in Records : ~Similar(i)

\* C4 witness: a non-empty collection whose stage-1 candidate shares a token
\* with the query but stays below the cutoff, with no similar question: None
C4_Witness ==
    /\ pc = "searched"
    /\ kb_data # <<>>
    /\ kb.best_overlap > 0
    /\ kb.answer = None

\* ---- match_intent, intent_response ----
\* the intents, by position, that have a pattern matching the lower-cased text
MatchingIntents ==
    {i \in 1..Len(INTENTS) :
        \E j \in 1..Len(INTENTS[i].patterns) : re_search(INTENTS[i].patterns[j], lower(user))}

\* C8: match_intent returns the earliest declared intent, in the order greeting,
\* goodbye, thanks, how_are_you, help, that has a pattern matching anywhere in
\* the lower-cased raw text, and None iff no pattern matches; "Hello there"
\* gives greeting and "xyz" gives None
C8_FirstDeclaredIntentWins ==
    /\ [i \in 1..Len(INTENTS) |-> INTENTS[i].name]
         = <<"greeting", "goodbye", "thanks", "how_are_you", "help">>
    /\ pc \in {"matched", "replied"} =>
         /\ intent = IF MatchingIntents = {} THEN None
                     ELSE INTENTS[Min(MatchingIntents)].name
         /\ user = <<72,101,108,108,111,32,116,104,101,114,101>> (* "Hello there" *) => intent = "greeting"
         /\ user = <<120,121,122>> (* "xyz" *) => intent = None

\* C8 witness: a text matched by a goodbye pattern first and a greeting pattern
\* after it is classified as greeting
C8_Witness ==
    /\ pc = "matched"
    /\ user = <<98,121,101,33,32,104,105>> (* "bye! hi" *)
    /\ MatchingIntents = {1, 2}
    /\ intent = "greeting"

\* the response templates of the intents other than key
OtherResponses(key) ==
    {INTENTS[i].responses[k] :
        <<i, k>> \in {p \in (1..Len(INTENTS)) \X (1..3) :
                        INTENTS[p[1]].name # key /\ p[2] <= Len(INTENTS[p[1]].responses)}}

OwnResponses(key) ==
    {INTENTS[i].responses[k] :
        <<i, k>> \in {p \in (1..Len(INTENTS)) \X (1..3) :
                        INTENTS[p[1]].name = key /\ p[2] <= Len(INTENTS[p[1]].responses)}}

\* C9: for a registered identifier intent_response returns a template of that
\* intent and of no other; every intent match_intent returns is registered;
\* an unregistered identifier ends in the lookup error, with no reply
C9_ResponseOfSameIntent ==
    /\ (pc \in {"matched", "replied"} /\ intent # None) => intent \in INTENT_KEYS
    /\ pc \in {"replied", "looked_up"} =>
         IF \E i \in 1..Len(INTENTS) : INTENTS[i].name = intent
         THEN /\ reply.kind = "reply"
              /\ reply.text \in OwnResponses(intent)
              /\ reply.text \notin OtherResponses(intent)
         ELSE reply.kind = "KeyError"

\* C9 witness: the intent matched on "see you" is answered with a goodbye template
C9_Witness ==
    /\ pc = "replied"
    /\ user = <<115,101,101,32,121,111,117>> (* "see you" *)
    /\ intent = "goodbye"
    /\ reply = [kind |-> "reply", text |-> "See you later!"]

\* ---- main ----
\* the maximal runs of word characters of text
WordRuns(text) ==
    {SubSeq(text, p[1], p[2]) :
        p \in {q \in (1..Len(text)) \X (1..Len(text)) :
                 /\ q[1] <= q[2]
                 /\ \A k \in q[1]..q[2] : IsWordChar(text[k])
                 /\ q[1] = 1 \/ ~IsWordChar(text[q[1] - 1])
                 /\ q[2] = Len(text) \/ ~IsWordChar(text[q[2] + 1])}}

HasExitWord(text) == WordRuns(lower(text)) \cap EXIT_WORDS # {}

KbAnswers(text) == truthy(find_in_kb(text, kb_data, DEFAULT_CUTOFF).answer)

Called(name) == \E i \in 1..Len(turn.calls) : turn.calls[i] = name

\* C10: each line takes exactly one branch, in the order empty input, exit
\* word, truthy KB answer, matched intent, sentiment/keyword/fallback; the exit
\* branch runs before any KB lookup, the KB branch skips intent matching, the
\* intent branch skips sentiment; the loop ends only on an exit word or on
\* end of input; a line that matches the goodbye intent without an exit word
\* gets a goodbye reply and the loop goes on
C10_OneBranchInPriorityOrder ==
    /\ pc = "ended" <=> ~turn.running
    /\ ~turn.running <=> turn.branch \in {"exit", "eof"}
    /\ (pc \in {"replied", "ended"} /\ turn.branch # "eof") =>
         LET text == strip(user)
         IN  /\ turn.branch =
                  IF text = <<>> THEN "empty"
                  ELSE IF HasExitWord(text) THEN "exit"
                  ELSE IF KbAnswers(text) THEN "kb"
                  ELSE IF match_intent(text) # None THEN "intent"
                  ELSE IF detect_sentiment(text).polarity = "negative" THEN "negative"
                  ELSE IF detect_sentiment(text).polarity = "positive" THEN "positive"
                  ELSE IF about_images(text) \/ about_flask(text) THEN "keyword"
                  ELSE "fallback"
             /\ turn.branch \in {"empty", "exit"} => turn.calls = <<>>
             /\ turn.branch = "kb" =>
                  /\ turn.said = find_in_kb(text, kb_data, DEFAULT_CUTOFF).answer
                  /\ ~Called("match_intent")
                  /\ ~Called("intent_response")
             /\ turn.branch = "intent" =>
                  (~Called("detect_sentiment") /\ ~Called("detect_emotions"))
             /\ (match_intent(text) = "goodbye" /\ ~HasExitWord(text) /\ ~KbAnswers(text)) =>
                  /\ turn.branch = "intent"
                  /\ turn.said \in OwnResponses("goodbye")
                  /\ turn.running

\* C10 witness: "see you" was answered with a goodbye template and the loop goes on
C10_Witness ==
    /\ pc = "replied"
    /\ user = <<115,101,101,32,121,111,117>> (* "see you" *)
    /\ turn.branch = "intent"
    /\ turn.said = "Goodbye! Take care."
    /\ turn.running

====
